---- MODULE Spec2Model ----
(***************************************************************************)
(* Model of flaky_api.py, the mitmproxy addon FlakyLLM.                    *)
(*                                                                         *)
(* Strings are sequences of one-character strings, so that the substring   *)
(* test on the host, the comma split, the whitespace strip and float()     *)
(* are computed as the Python code computes them.                          *)
(*                                                                         *)
(* Scheduling: FlakyLLM.request is a plain (non-async, non-@concurrent)    *)
(* hook.  mitmproxy calls such a hook on its event loop and the hook has   *)
(* no suspension point, so one call of the hook is one atomic step.  What  *)
(* is concurrent is the set of flows in flight: the calls for different    *)
(* flows, and the host's option updates, interleave in any order.          *)
(*                                                                         *)
(* The addon keeps no per-flow state.  The model keeps, besides the        *)
(* addon's counter and the host's options, which flows have been handled   *)
(* and what the most recent call of the hook did to its flow (last).       *)
(***************************************************************************)
EXTENDS Integers, Sequences, FiniteSets

\* ------------------------------------------------------------------ bounds
\* Number of flows (client requests) the proxy sees.
MaxFlows == 2
\* Number of times the host sets the options (--set at start, or at run time).
MaxUpdates == 1

\* ------------------------------------------------------- string literals
together_xyz == <<"t","o","g","e","t","h","e","r",".","x","y","z">>
anthropic_com == <<"a","n","t","h","r","o","p","i","c",".","c","o","m">>
openrouter_ai == <<"o","p","e","n","r","o","u","t","e","r",".","a","i">>

rate_limit == <<"r","a","t","e","_","l","i","m","i","t">>
server_error == <<"s","e","r","v","e","r","_","e","r","r","o","r">>
network_error == <<"n","e","t","w","o","r","k","_","e","r","r","o","r">>
auth_error == <<"a","u","t","h","_","e","r","r","o","r">>
invalid_request == <<"i","n","v","a","l","i","d","_","r","e","q","u","e","s","t">>

\* The defaults registered by load().
DefaultFailureRate == <<"0",".","3">>
DefaultFailureTypes == <<"r","a","t","e","_","l","i","m","i","t",",","s","e","r","v","e","r","_","e","r","r","o","r",",","n","e","t","w","o","r","k","_","e","r","r","o","r",",","a","u","t","h","_","e","r","r","o","r",",","i","n","v","a","l","i","d","_","r","e","q","u","e","s","t">>
DefaultOptions == [failure_rate |-> DefaultFailureRate, failure_types |-> DefaultFailureTypes]

\* ---------------------------------------------------------------- inputs
\* Destination hosts of the requests (flow.request.host).
Hosts ==
  { <<"a","p","i",".","t","o","g","e","t","h","e","r",".","x","y","z">>,
    <<"a","p","i",".","a","n","t","h","r","o","p","i","c",".","c","o","m">>,
    <<"o","p","e","n","r","o","u","t","e","r",".","a","i">>,
    <<"e","x","a","m","p","l","e",".","c","o","m">>,
    <<"A","P","I",".","A","N","T","H","R","O","P","I","C",".","C","O","M">> }

\* Option values the host may set.  Both options have typespec str, so every
\* string is accepted.
Opt(rate, types) == [failure_rate |-> rate, failure_types |-> types]
Configs ==
  { DefaultOptions,
    Opt(<<"1",".","0">>, rate_limit),
    Opt(<<"1",".","0">>, server_error),
    Opt(<<"1",".","0">>, network_error),
    Opt(<<"1",".","0">>, auth_error),
    Opt(<<"1",".","0">>, invalid_request),
    Opt(<<"0",".","0">>, rate_limit \o <<",">> \o server_error),
    Opt(<<"0",".","5">>, <<" ">> \o auth_error \o <<" ",",">> \o network_error),
    Opt(<<"1",".","0">>, rate_limit \o <<","," ","t","i","m","e","o","u","t">>),
    Opt(<<"1",".","0">>, <<>>),
    Opt(<<"1",".","5">>, server_error),
    Opt(<<"-","1">>, invalid_request),
    Opt(<<"n","a","n">>, auth_error),
    Opt(<<"a","b","c">>, rate_limit) }

\* random.random() is uniform on [0,1); the value r stands for r/10.
RandomValues == 0..9

\* ------------------------------------------------------ string functions
\* Python: sub in s  (case-sensitive substring test).
Contains(sub, s) ==
  \E i \in 0..(Len(s) - Len(sub)) : SubSeq(s, i + 1, i + Len(sub)) = sub

Whitespace == {" ", "\t", "\n", "\r"}

RECURSIVE LStrip(_)
LStrip(s) == IF s # <<>> /\ Head(s) \in Whitespace THEN LStrip(Tail(s)) ELSE s

RECURSIVE RStrip(_)
RStrip(s) ==
  IF s # <<>> /\ s[Len(s)] \in Whitespace THEN RStrip(SubSeq(s, 1, Len(s) - 1)) ELSE s

\* Python: s.strip()
Strip(s) == RStrip(LStrip(s))

\* Python: s.split(',')  -- never the empty list: "".split(',') is [''].
RECURSIVE Split(_)
Split(s) ==
  IF \A i \in DOMAIN s : s[i] # ","
  THEN <<s>>
  ELSE LET c == CHOOSE i \in DOMAIN s : s[i] = "," /\ \A j \in 1..(i - 1) : s[j] # ","
       IN  <<SubSeq(s, 1, c - 1)>> \o Split(SubSeq(s, c + 1, Len(s)))

\* [ft.strip() for ft in failure_types.split(',')]
StripAll(parts) == [i \in DOMAIN parts |-> Strip(parts[i])]

\* ---------------------------------------------------------------- float()
DigitChars == <<"0","1","2","3","4","5","6","7","8","9">>
IsDigit(c) == \E d \in DOMAIN DigitChars : DigitChars[d] = c
DigitVal(c) == (CHOOSE d \in DOMAIN DigitChars : DigitChars[d] = c) - 1
AllDigits(s) == \A i \in DOMAIN s : IsDigit(s[i])

RECURSIVE DigitsValue(_)
DigitsValue(s) ==
  IF s = <<>> THEN 0 ELSE 10 * DigitsValue(SubSeq(s, 1, Len(s) - 1)) + DigitVal(s[Len(s)])

RECURSIVE Pow10(_)
Pow10(n) == IF n = 0 THEN 1 ELSE 10 * Pow10(n - 1)

ValueError == [kind |-> "ValueError", num |-> 0, den |-> 1]

\* An unsigned decimal literal: digits, at most one point, at least one digit.
\* The value is the exact fraction num/den.
ParseUnsigned(s) ==
  LET dots == {i \in DOMAIN s : s[i] = "."} IN
  IF s = <<"n","a","n">> THEN [kind |-> "nan", num |-> 0, den |-> 1]
  ELSE IF s \in {<<"i","n","f">>, <<"i","n","f","i","n","i","t","y">>}
  THEN [kind |-> "inf", num |-> 1, den |-> 1]
  ELSE IF dots = {}
  THEN IF s # <<>> /\ AllDigits(s)
       THEN [kind |-> "num", num |-> DigitsValue(s), den |-> 1]
       ELSE ValueError
  ELSE IF Cardinality(dots) = 1
  THEN LET d == CHOOSE i \in dots : TRUE
           ip == SubSeq(s, 1, d - 1)
           fp == SubSeq(s, d + 1, Len(s))
       IN  IF AllDigits(ip) /\ AllDigits(fp) /\ Len(ip) + Len(fp) > 0
           THEN [kind |-> "num",
                 num |-> DigitsValue(ip) * Pow10(Len(fp)) + DigitsValue(fp),
                 den |-> Pow10(Len(fp))]
           ELSE ValueError
  ELSE ValueError

\* Python: float(s) for the plain decimal forms: surrounding whitespace is
\* ignored, an optional sign, then a decimal literal, nan or inf.  Exponents,
\* digit-group underscores and upper-case nan/inf are not among the inputs.
ParseFloat(s) ==
  LET t == Strip(s) IN
  IF t # <<>> /\ Head(t) = "-"
  THEN LET p == ParseUnsigned(Tail(t)) IN [p EXCEPT !.num = 0 - p.num]
  ELSE IF t # <<>> /\ Head(t) = "+"
  THEN ParseUnsigned(Tail(t))
  ELSE ParseUnsigned(t)

\* Mutant of RandomBelow: random.random() <= failure_rate
RandomAtMost(r, rate) ==
  CASE rate.kind = "nan" -> FALSE
    [] rate.kind = "inf" -> rate.num > 0
    [] OTHER -> r * rate.den <= rate.num * 10

\* random.random() < failure_rate, for the random value r/10.
RandomBelow(r, rate) ==
  CASE rate.kind = "nan" -> FALSE
    [] rate.kind = "inf" -> rate.num > 0
    [] OTHER -> r * rate.den < rate.num * 10

\* ------------------------------------------------------------- the state
VARIABLES
  request_count,   \* FlakyLLM.request_count
  options,         \* ctx.options: failure_rate and failure_types, both str
  versions,        \* history: every option value the host has set, in order
  flows,           \* history: which flows the hook has been called for
  calls,           \* history: number of calls whose host names an LLM API
  last             \* what the most recent call of the hook did to its flow

vars == <<request_count, options, versions, flows, calls, last>>

Flows == 1..MaxFlows

NoString == <<>>

\* A flow the hook has not touched: flow.response unset, connection alive.
\* raised, injected, failure_type, rate_read and types_read record the path
\* the call took and the option values it read.
Untouched ==
  [response |-> <<>>, killed |-> FALSE, raised |-> FALSE,
   injected |-> FALSE, failure_type |-> NoString,
   rate_read |-> NoString, types_read |-> NoString]

\* ------------------------------------------------------------ the hook
\* Mutant of IsLLMHost: the second test looks for ".com" only.
IsLLMHostLoose(host) ==
  \/ Contains(together_xyz, host)
  \/ Contains(<<".","c","o","m">>, host)
  \/ Contains(openrouter_ai, host)

\* Line 29: the three substring tests on flow.request.host.
IsLLMHost(host) ==
  \/ Contains(together_xyz, host)
  \/ Contains(anthropic_com, host)
  \/ Contains(openrouter_ai, host)

\* Mutant of Increment: self.request_count = +1
IncrementReset(count) == 1

\* Line 30: self.request_count += 1
Increment(count) == count + 1

\* Lines 29-30: the counter after a call for the given host.
CountRequest(host, count) == IF IsLLMHost(host) THEN Increment(count) ELSE count

\* Line 33: ctx.options.failure_rate, read when the hook runs.
ReadFailureRate(opts) == opts.failure_rate

\* Mutant of ReadFailureTypes: the list is the one registered by load().
ReadDefaultFailureTypes(opts) == DefaultFailureTypes

\* Line 38: ctx.options.failure_types, read when the hook runs.
ReadFailureTypes(opts) == opts.failure_types

\* Line 38: the configured failure types, split and stripped.
FailureTypes(types) == StripAll(Split(types))

\* Line 39: random.choice(failure_types); pick is the random integer drawn.
Choice(seq, pick) == seq[(pick % Len(seq)) + 1]

JsonHeaders == {<<"Content-Type", "application/json">>}

\* http.Response.make(status, body, headers)
MakeResponse(status, body, headers) ==
  [status |-> status, body |-> body, headers |-> headers]

\* Mutant of Dispatch: the auth_error answer has status 403.
DispatchAuth403(failure_type) ==
  IF failure_type = rate_limit
  THEN [response |-> <<MakeResponse(429,
          "{\"error\": {\"message\": \"Rate limit exceeded\", \"type\": \"rate_limit_error\"}}",
          JsonHeaders)>>,
        killed |-> FALSE]
  ELSE IF failure_type = server_error
  THEN [response |-> <<MakeResponse(500,
          "{\"error\": {\"message\": \"Internal server error\"}}",
          JsonHeaders)>>,
        killed |-> FALSE]
  ELSE IF failure_type = network_error
  THEN [response |-> <<>>, killed |-> TRUE]
  ELSE IF failure_type = auth_error
  THEN [response |-> <<MakeResponse(403,
          "{\"error\": {\"message\": \"Invalid API key\", \"type\": \"authentication_error\"}}",
          JsonHeaders)>>,
        killed |-> FALSE]
  ELSE IF failure_type = invalid_request
  THEN [response |-> <<MakeResponse(400,
          "{\"error\": {\"message\": \"Invalid request: missing required parameter\", \"type\": \"invalid_request_error\"}}",
          JsonHeaders)>>,
        killed |-> FALSE]
  ELSE [response |-> <<>>, killed |-> FALSE]

\* Mutant of Dispatch: the network_error branch falls through to the last
\* branch after killing the flow.
DispatchFallThrough(failure_type) ==
  IF failure_type = rate_limit
  THEN [response |-> <<MakeResponse(429,
          "{\"error\": {\"message\": \"Rate limit exceeded\", \"type\": \"rate_limit_error\"}}",
          JsonHeaders)>>,
        killed |-> FALSE]
  ELSE IF failure_type = server_error
  THEN [response |-> <<MakeResponse(500,
          "{\"error\": {\"message\": \"Internal server error\"}}",
          JsonHeaders)>>,
        killed |-> FALSE]
  ELSE IF failure_type = network_error
  THEN [response |-> <<MakeResponse(400,
          "{\"error\": {\"message\": \"Invalid request: missing required parameter\", \"type\": \"invalid_request_error\"}}",
          JsonHeaders)>>,
        killed |-> TRUE]
  ELSE IF failure_type = auth_error
  THEN [response |-> <<MakeResponse(401,
          "{\"error\": {\"message\": \"Invalid API key\", \"type\": \"authentication_error\"}}",
          JsonHeaders)>>,
        killed |-> FALSE]
  ELSE IF failure_type = invalid_request
  THEN [response |-> <<MakeResponse(400,
          "{\"error\": {\"message\": \"Invalid request: missing required parameter\", \"type\": \"invalid_request_error\"}}",
          JsonHeaders)>>,
        killed |-> FALSE]
  ELSE [response |-> <<>>, killed |-> FALSE]

\* Lines 41-72: the if/elif chain on failure_type.  response is <<>> while
\* flow.response is unset, and <<resp>> once it is set.
Dispatch(failure_type) ==
  IF failure_type = rate_limit
  THEN [response |-> <<MakeResponse(429,
          "{\"error\": {\"message\": \"Rate limit exceeded\", \"type\": \"rate_limit_error\"}}",
          JsonHeaders)>>,
        killed |-> FALSE]
  ELSE IF failure_type = server_error
  THEN [response |-> <<MakeResponse(500,
          "{\"error\": {\"message\": \"Internal server error\"}}",
          JsonHeaders)>>,
        killed |-> FALSE]
  ELSE IF failure_type = network_error
  THEN [response |-> <<>>, killed |-> TRUE]
  ELSE IF failure_type = auth_error
  THEN [response |-> <<MakeResponse(401,
          "{\"error\": {\"message\": \"Invalid API key\", \"type\": \"authentication_error\"}}",
          JsonHeaders)>>,
        killed |-> FALSE]
  ELSE IF failure_type = invalid_request
  THEN [response |-> <<MakeResponse(400,
          "{\"error\": {\"message\": \"Invalid request: missing required parameter\", \"type\": \"invalid_request_error\"}}",
          JsonHeaders)>>,
        killed |-> FALSE]
  ELSE [response |-> <<>>, killed |-> FALSE]

\* Lines 29-74: what one call of FlakyLLM.request does to a flow with the
\* given host, with r and pick the two random draws.  raised tells that
\* float() raised ValueError, which ends the call at line 33.
Handle(host, opts, r, pick) ==
  IF ~IsLLMHost(host) THEN Untouched
  ELSE
    LET read == [Untouched EXCEPT !.rate_read = ReadFailureRate(opts)]
        failure_rate == ParseFloat(read.rate_read)
    IN
    IF failure_rate.kind = "ValueError"
    THEN [read EXCEPT !.raised = TRUE]
    ELSE IF RandomBelow(r, failure_rate)
    THEN LET types_read == ReadFailureTypes(opts)
             failure_type == Choice(FailureTypes(types_read), pick)
             done == Dispatch(failure_type)
         IN  [read EXCEPT !.injected = TRUE,
                          !.types_read = types_read,
                          !.failure_type = failure_type,
                          !.response = done.response,
                          !.killed = done.killed]
    ELSE read

\* random.choice draws an index below the length of the list.
MaxEntries ==
  CHOOSE n \in 1..64 :
    /\ \A c \in Configs : Len(FailureTypes(c.failure_types)) <= n
    /\ \E c \in Configs : Len(FailureTypes(c.failure_types)) = n
PickValues == 0..(MaxEntries - 1)

\* Every result a call can have, over the two random draws.
Outcomes(host, opts) ==
  {Handle(host, opts, r, pick) : r \in RandomValues, pick \in PickValues}

\* Every pair of option values: the options are two independent strings.
OptionValues == {Opt(a.failure_rate, b.failure_types) : a, b \in Configs}

\* Outcomes, tabulated over the inputs.
OutcomeTable == [host \in Hosts |-> [opts \in OptionValues |-> Outcomes(host, opts)]]

\* Mutant of UpdateOptions: the update stores failure_rate and leaves
\* failure_types for later.
UpdateRateOnly(old, new) == [old EXCEPT !.failure_rate = new.failure_rate]

\* The host's option store takes the new values of both options at once.
UpdateOptions(old, new) == new

\* ------------------------------------------------------------- behaviour
\* The matched-host substrings, and the requests the specification calls
\* eligible: those whose host contains one of them.
MatchedHosts == {together_xyz, anthropic_com, openrouter_ai}
Eligible(host) == \E sub \in MatchedHosts : Contains(sub, host)

\* version is the index in versions of the options in force at the call.
NoCall == [called |-> FALSE, host |-> NoString, version |-> 1, flow |-> Untouched]

\* FlakyLLM() is constructed and load() has registered the two options.
Init ==
  /\ request_count = 0
  /\ options = DefaultOptions
  /\ versions = <<DefaultOptions>>
  /\ flows = [f \in Flows |-> "pending"]
  /\ calls = 0
  /\ last = NoCall

\* mitmproxy calls the request hook for a flow in flight; host is the
\* destination of its request.
request(f, host) ==
  /\ flows[f] = "pending"
  /\ \E res \in OutcomeTable[host][options] :
       last' = [called |-> TRUE, host |-> host, version |-> Len(versions),
                flow |-> res]
  /\ request_count' = CountRequest(host, request_count)
  /\ flows' = [flows EXCEPT ![f] = "done"]
  /\ calls' = calls + (IF Eligible(host) THEN 1 ELSE 0)
  /\ UNCHANGED <<options, versions>>

\* The host sets failure_rate and failure_types (--set, or at run time).
Configure(c) ==
  /\ Len(versions) <= MaxUpdates
  /\ options' = UpdateOptions(options, c)
  /\ versions' = Append(versions, c)
  /\ UNCHANGED <<request_count, flows, calls, last>>

Next ==
  \/ \E f \in Flows, host \in Hosts : request(f, host)
  \/ \E c \in Configs : Configure(c)

Spec == Init /\ [][Next]_vars

\* ================================================================ claims
\* The three decisions, read off the flow after the call.
IsPassThrough(fl) == fl.response = <<>> /\ ~fl.killed
IsRespond(fl) == fl.response # <<>> /\ ~fl.killed
IsAbort(fl) == fl.killed /\ fl.response = <<>>

\* The configuration in force at the most recent call.
LastConfig == versions[last.version]
LastEligible == last.called /\ Eligible(last.host)

\* failure_rate of configuration c is the number n/d.
RateIs(c, n, d) ==
  LET p == ParseFloat(c.failure_rate) IN p.kind = "num" /\ p.num * d = n * p.den

Kinds == {rate_limit, server_error, network_error, auth_error, invalid_request}

\* The fixed table of the specification (section 4.1, step 5).
Materialization(k) ==
  CASE k = rate_limit ->
         [response |-> <<[status |-> 429,
            body |-> "{\"error\": {\"message\": \"Rate limit exceeded\", \"type\": \"rate_limit_error\"}}",
            headers |-> {<<"Content-Type", "application/json">>}]>>,
          killed |-> FALSE]
    [] k = server_error ->
         [response |-> <<[status |-> 500,
            body |-> "{\"error\": {\"message\": \"Internal server error\"}}",
            headers |-> {<<"Content-Type", "application/json">>}]>>,
          killed |-> FALSE]
    [] k = auth_error ->
         [response |-> <<[status |-> 401,
            body |-> "{\"error\": {\"message\": \"Invalid API key\", \"type\": \"authentication_error\"}}",
            headers |-> {<<"Content-Type", "application/json">>}]>>,
          killed |-> FALSE]
    [] k = invalid_request ->
         [response |-> <<[status |-> 400,
            body |-> "{\"error\": {\"message\": \"Invalid request: missing required parameter\", \"type\": \"invalid_request_error\"}}",
            headers |-> {<<"Content-Type", "application/json">>}]>>,
          killed |-> FALSE]
    [] k = network_error -> [response |-> <<>>, killed |-> TRUE]
    [] OTHER -> [response |-> <<>>, killed |-> FALSE]

Applied(fl) == [response |-> fl.response, killed |-> fl.killed]

\* A step of the hook: some flow goes from pending to done.
IsCall == flows' # flows

\* C1: a call for a host that contains none of the matched-host substrings
\* leaves flow.response unset, does not kill the flow, does not raise, and
\* leaves request_count as it was, whatever the options are.
C1_UnmatchedPassThrough ==
  [][(IsCall /\ ~Eligible(last'.host)) =>
       /\ IsPassThrough(last'.flow)
       /\ ~last'.flow.raised
       /\ request_count' = request_count]_vars

\* C1 witness: a call for an unmatched host was made while the options ask
\* for a failure on every request and an earlier call was counted.
C1_Witness ==
  /\ last.called /\ ~Eligible(last.host)
  /\ RateIs(LastConfig, 1, 1)
  /\ request_count = 1

\* C2 (as stated): with failure_rate 1.0, a call for an eligible host never
\* ends in PassThrough, whatever failure_types is set to.
C2_FullRateNeverPassThrough ==
  (LastEligible /\ RateIs(LastConfig, 1, 1)) => ~IsPassThrough(last.flow)

\* C3: with failure_rate 0.0, every call for an eligible host ends in
\* PassThrough and does not raise.
C3_ZeroRatePassThrough ==
  (LastEligible /\ RateIs(LastConfig, 0, 1)) =>
     (IsPassThrough(last.flow) /\ ~last.flow.injected /\ ~last.flow.raised)

\* C3 witness: the second counted call, made at failure_rate 0.0.
C3_Witness ==
  LastEligible /\ RateIs(LastConfig, 0, 1) /\ request_count = 2

\* C4: with failure_rate 1.0 and failure_types naming the single kind k, a
\* call for an eligible host applies exactly the table's entry for k.
C4_SingleKindMaterialized ==
  \A k \in Kinds :
    (LastEligible /\ RateIs(LastConfig, 1, 1)
       /\ FailureTypes(LastConfig.failure_types) = <<k>>)
    => /\ Applied(last.flow) = Materialization(k)
       /\ ~last.flow.raised

\* C4 witness: the scenario failure_rate 1.0, failure_types auth_error,
\* host api.anthropic.com, answered 401.
C4_Witness ==
  /\ last.called
  /\ last.host = <<"a","p","i",".","a","n","t","h","r","o","p","i","c",".","c","o","m">>
  /\ LastConfig = Opt(<<"1",".","0">>, auth_error)
  /\ IsRespond(last.flow) /\ last.flow.response[1].status = 401

C6_OneDecision ==
  /\ [](last.called =>
          /\ ~(last.flow.response # <<>> /\ last.flow.killed)
          /\ Cardinality({d \in {"PassThrough", "Respond", "Abort"} :
                \/ d = "PassThrough" /\ IsPassThrough(last.flow)
                \/ d = "Respond" /\ IsRespond(last.flow)
                \/ d = "Abort" /\ IsAbort(last.flow)}) = 1)
  /\ [][\A f \in Flows : flows[f] = "done" => flows'[f] = "done"]_vars
  /\ [][(last' # last \/ request_count' # request_count) =>
          \E f \in Flows : /\ flows[f] = "pending"
                           /\ flows' = [flows EXCEPT ![f] = "done"]]_vars

\* C6 witness: a call that killed the flow.
C6_Witness == last.called /\ IsAbort(last.flow) /\ last.flow.injected

\* C7 (as stated): no call raises, whatever options the host accepted.
C7_NeverRaises == last.called => ~last.flow.raised

\* A configuration without error: failure_rate is a number in [0,1] and
\* failure_types is a non-empty list of known kinds.
ValidConfig(c) ==
  LET p == ParseFloat(c.failure_rate) IN
  /\ p.kind = "num" /\ 0 <= p.num /\ p.num <= p.den
  /\ c.failure_types # <<>>
  /\ \A i \in DOMAIN FailureTypes(c.failure_types) :
       FailureTypes(c.failure_types)[i] \in Kinds

\* C8 (as stated): a configuration with an error is never in force when a
\* request is handled.
C8_ConfigErrorsRejected == LastEligible => ValidConfig(LastConfig)

CanInject(c) ==
  LET p == ParseFloat(c.failure_rate) IN
  p.kind # "ValueError" /\ \E r \in RandomValues : RandomBelow(r, p)

\* C10: an injected call applies the table's entry for one entry of the
\* failure_types list in force (split on commas, entries stripped), so a
\* kind that is not in the list is never applied; and whenever injection is
\* possible, every entry of the list is among the results a call can have.
C10_ChosenFromConfigured ==
  /\ (last.called /\ last.flow.injected) =>
       LET list == FailureTypes(LastConfig.failure_types) IN
       /\ \E i \in DOMAIN list :
            /\ last.flow.failure_type = list[i]
            /\ Applied(last.flow) = Materialization(list[i])
       /\ \A k \in Kinds :
            Applied(last.flow) = Materialization(k) =>
              \E i \in DOMAIN list : list[i] = k
  /\ \A host \in Hosts :
       (Eligible(host) /\ CanInject(options)) =>
         LET list == FailureTypes(options.failure_types) IN
         \A i \in DOMAIN list :
           \E res \in OutcomeTable[host][options] :
             /\ res.injected
             /\ res.failure_type = list[i]
             /\ Applied(res) = Materialization(list[i])

\* C10 witness: the second entry of a list written with blanks around its
\* entries was chosen and applied.
C10_Witness ==
  /\ last.called /\ last.flow.injected
  /\ LastConfig.failure_types = <<" ">> \o auth_error \o <<" ",",">> \o network_error
  /\ last.flow.failure_type = network_error
  /\ IsAbort(last.flow)

====
